---- MODULE Spec2Model ----
(***************************************************************************)
(* A model of src/data_ingestion.py: the data-ingestion step of the        *)
(* pipeline.  One process runs one entry point of the module, main() or    *)
(* load_params(path), against an environment made of the parameters file,  *)
(* the CSV resource and the output directory data/raw.  The file system    *)
(* outlives the process, so a later run finds what an earlier one left.    *)
(***************************************************************************)
EXTENDS Integers, Sequences, FiniteSets

\* ------------------------------------------------------------------ bounds

\* The largest number of data lines of a CSV resource.
MaxRows == 4

\* ------------------------------------------------------- program constants

\* test_size = 0.21, as the fraction test_size_num / test_size_den.
test_size_num == 21
test_size_den == 100
\* random_state = 42
random_state == 42

\* ------------------------------------------------------------------ values

None == "None"
NaN == "NaN"
Labels == {"ham", "spam"}

DroppedColumns == {"Unnamed: 2", "Unnamed: 3", "Unnamed: 4"}

\* The header lines the remote CSV may carry: the expected five columns, the
\* five with v2 before v1, six columns, and headers lacking one expected column.
Headers ==
    { <<"v1", "v2", "Unnamed: 2", "Unnamed: 3", "Unnamed: 4">>,
      <<"v2", "v1", "Unnamed: 2", "Unnamed: 3", "Unnamed: 4">>,
      <<"v1", "v2", "Unnamed: 2", "Unnamed: 3", "Unnamed: 4", "extra">>,
      <<"v1", "v2", "Unnamed: 2", "Unnamed: 3">>,
      <<"v2", "Unnamed: 2", "Unnamed: 3", "Unnamed: 4">>,
      <<"v1", "Unnamed: 2", "Unnamed: 3", "Unnamed: 4">> }

\* The field of a data line under column c, for a message labelled l.
Field(c, l) ==
    IF c = "v1" THEN l
    ELSE IF c = "v2" THEN "msg"
    ELSE IF c = "extra" THEN "x"
    ELSE ""

Line(header, l) == [i \in 1..Len(header) |-> Field(header[i], l)]

LabelSeqs == UNION { [1..n -> Labels] : n \in 0..MaxRows }

\* The resource behind source_url: unreachable, or a text of a header line and
\* data lines.  A text may be empty, and a data line may be longer than the header.
WellFormed ==
    { [status |-> "ok", header |-> h,
       lines |-> [i \in 1..Len(ls) |-> Line(h, ls[i])]] :
         h \in Headers, ls \in LabelSeqs }

Malformed ==
    { [status |-> "ok", header |-> <<>>, lines |-> <<>>],
      [status |-> "ok", header |-> <<"v1", "v2">>,
       lines |-> << <<"ham", "msg", "x">> >>] }

Unreachable == [status |-> "unreachable", header |-> <<>>, lines |-> <<>>]

Sources == WellFormed \cup Malformed \cup {Unreachable}

NoFile == [header |-> <<"(absent)">>, lines |-> <<>>]
EmptyFile == [header |-> <<>>, lines |-> <<>>]
\* What an earlier version of the data left in data/raw.
StaleFile == [header |-> <<"target", "text">>, lines |-> << <<"ham", "old">> >>]

NoFrame == [columns |-> <<>>, index |-> <<>>, data |-> <<>>]

\* --------------------------------------------------------------- variables

VARIABLES
    paramsFile,   \* the file at params_path: "missing", "malformed" or "ok"
    source,       \* the resource behind source_url
    rawDir,       \* data/raw: "absent", "dir" or "file"
    trainFile,    \* data/raw/train.csv
    testFile,     \* data/raw/test.csv
    pc,           \* the position of the process
    df,           \* main's df
    train_df,     \* main's train_df
    test_df,      \* main's test_df
    log,          \* the entries this process gave to logger
    raised,       \* the exception raised where the failure happened
    exc,          \* the exception that left the entry point
    stages,       \* the stages this process entered, in order
    effects,      \* what this process did to the file system
    prev          \* the previous successful run of main: its df and its files

vars == <<paramsFile, source, rawDir, trainFile, testFile, pc, df, train_df,
          test_df, log, raised, exc, stages, effects, prev>>

env == <<paramsFile, source>>
fs == <<rawDir, trainFile, testFile>>
frames == <<df, train_df, test_df>>

\* ----------------------------------------------------------------- logging

Debug(msg, arg) == [level |-> "DEBUG", msg |-> msg, arg |-> arg]
Error(msg, arg) == [level |-> "ERROR", msg |-> msg, arg |-> arg]

\* ------------------------------------------------------- library functions

Range(s) == { s[i] : i \in 1..Len(s) }

Positions(s) == [i \in 1..Len(s) |-> i]

\* The rows (iloc) or columns of a frame at the given 1-based positions.
TakeRows(frame, ps) ==
    [columns |-> frame.columns,
     index |-> [i \in 1..Len(ps) |-> frame.index[ps[i]]],
     data |-> [i \in 1..Len(ps) |-> frame.data[ps[i]]]]

TakeColumns(frame, ps) ==
    [columns |-> [j \in 1..Len(ps) |-> frame.columns[ps[j]]],
     index |-> frame.index,
     data |-> [i \in 1..Len(frame.data) |->
                 [j \in 1..Len(ps) |-> frame.data[i][ps[j]]]]]

\* pandas.read_csv: an empty field is read as NaN, a short line is filled with
\* NaN, a line longer than the header is a ParserError, a text without a
\* header an EmptyDataError, and an unreachable URL a URLError.  The rows are
\* labelled 0..n-1.
ReadField(f) == IF f = "" THEN NaN ELSE f

read_csv(src) ==
    IF src.status = "unreachable" THEN [err |-> "URLError", frame |-> NoFrame]
    ELSE IF src.header = <<>> THEN [err |-> "EmptyDataError", frame |-> NoFrame]
    ELSE IF \E i \in 1..Len(src.lines) : Len(src.lines[i]) > Len(src.header)
    THEN [err |-> "ParserError", frame |-> NoFrame]
    ELSE [err |-> None,
          frame |-> [columns |-> src.header,
                     index |-> [i \in 1..Len(src.lines) |-> i - 1],
                     data |-> [i \in 1..Len(src.lines) |->
                                 [j \in 1..Len(src.header) |->
                                     IF j <= Len(src.lines[i])
                                     THEN ReadField(src.lines[i][j])
                                     ELSE NaN]]]]

\* drop with errors="ignore": the labels that are no column are passed over.
drop_ignore(frame, labels) ==
    LET Kept(i) == frame.columns[i] \notin labels
    IN [err |-> None,
        frame |-> TakeColumns(frame, SelectSeq(Positions(frame.columns), Kept))]

\* DataFrame.drop(columns=labels): a KeyError when a label is no column.
drop(frame, labels) ==
    IF ~(labels \subseteq Range(frame.columns))
    THEN [err |-> "KeyError", frame |-> NoFrame]
    ELSE LET Kept(i) == frame.columns[i] \notin labels
         IN [err |-> None,
             frame |-> TakeColumns(frame, SelectSeq(Positions(frame.columns), Kept))]

\* DataFrame.rename(columns={"v1": "target", "v2": "text"}): a column that is
\* not there is passed over (errors="ignore").
\* The two new names exchanged.
NewNameSwapped(c) ==
    IF c = "v1" THEN "text" ELSE IF c = "v2" THEN "target" ELSE c

NewName(c) ==
    IF c = "v1" THEN "target" ELSE IF c = "v2" THEN "text" ELSE c

rename(frame) ==
    [frame EXCEPT !.columns = [j \in 1..Len(frame.columns) |-> NewName(frame.columns[j])]]

\* DataFrame.to_csv(path, index=False): the header line and the data lines,
\* without the row labels; NaN is written as an empty field.
WriteField(v) == IF v = NaN THEN "" ELSE v

to_csv(frame) ==
    [header |-> frame.columns,
     lines |-> [i \in 1..Len(frame.data) |->
                  [j \in 1..Len(frame.data[i]) |-> WriteField(frame.data[i][j])]]]

\* numpy.random.RandomState(42).permutation(n) for n = 0..8 (0-based).
Permutation42 ==
    << <<0>>,
       <<1, 0>>,
       <<0, 1, 2>>,
       <<1, 3, 0, 2>>,
       <<1, 4, 2, 0, 3>>,
       <<0, 1, 5, 2, 4, 3>>,
       <<0, 1, 5, 2, 4, 3, 6>>,
       <<1, 5, 0, 7, 2, 4, 3, 6>> >>

\* RandomState(seed).permutation(n); main only ever seeds with 42.
permutation(seed, n) ==
    CASE seed = 42 -> IF n = 0 THEN <<>> ELSE Permutation42[n]

\* ceil(num * n / den), for num, n >= 0 and den > 0.
CeilDiv(a, b) == (a + b - 1) \div b

\* n_test rounded down instead of up.
ValidateShuffleSplitFloor(n) ==
    LET n_test == (test_size_num * n) \div test_size_den
        n_train == n - n_test
    IN [n_test |-> n_test, n_train |-> n_train,
        err |-> IF n_train = 0 THEN "ValueError" ELSE None]

\* sklearn's _validate_shuffle_split with a float test_size and no
\* train_size: n_test = ceil(test_size * n), n_train = n - n_test, and a
\* ValueError when the train set would be empty.
ValidateShuffleSplit(n) ==
    LET n_test == CeilDiv(test_size_num * n, test_size_den)
        n_train == n - n_test
    IN [n_test |-> n_test, n_train |-> n_train,
        err |-> IF n_train = 0 THEN "ValueError" ELSE None]

\* The train rows taken one entry too early in the permutation.
train_test_split_overlap(frame) ==
    LET n == Len(frame.index)
        v == ValidateShuffleSplit(n)
        p == permutation(random_state, n)
        ind_test == [i \in 1..v.n_test |-> p[i] + 1]
        ind_train == [i \in 1..v.n_train |-> p[v.n_test + i - 1] + 1]
    IN IF v.err # None
       THEN [err |-> v.err, train |-> NoFrame, test |-> NoFrame]
       ELSE [err |-> None,
             train |-> TakeRows(frame, ind_train),
             test |-> TakeRows(frame, ind_test)]

\* train_test_split(df, test_size=0.21, random_state=42): the first n_test
\* entries of the permutation are the test rows, the next n_train the train
\* rows.
train_test_split(frame) ==
    LET n == Len(frame.index)
        v == ValidateShuffleSplit(n)
        p == permutation(random_state, n)
        ind_test == [i \in 1..v.n_test |-> p[i] + 1]
        ind_train == [i \in 1..v.n_train |-> p[v.n_test + i] + 1]
    IN IF v.err # None
       THEN [err |-> v.err, train |-> NoFrame, test |-> NoFrame]
       ELSE [err |-> None,
             train |-> TakeRows(frame, ind_train),
             test |-> TakeRows(frame, ind_test)]

\* os.makedirs without exist_ok: a directory that is there is an error.
makedirs_strict(dir, exist_ok) ==
    IF dir = "absent" THEN [err |-> None, dir |-> "dir"]
    ELSE [err |-> "FileExistsError", dir |-> dir]

\* os.makedirs(path, exist_ok): creates an absent directory, accepts one that
\* is there when exist_ok, and raises FileExistsError otherwise.
makedirs(dir, exist_ok) ==
    IF dir = "absent" THEN [err |-> None, dir |-> "dir"]
    ELSE IF dir = "dir" /\ exist_ok THEN [err |-> None, dir |-> dir]
    ELSE [err |-> "FileExistsError", dir |-> dir]

\* ------------------------------------------------------ exception handlers

\* A stage's handler that raises an exception of its own.
StageExceptWrap(l, msg, e) == [log |-> Append(l, Error(msg, e)), exc |-> "RuntimeError"]

\* A stage's handler: except Exception as e: logger.error(msg, e); raise
StageExcept(l, msg, e) == [log |-> Append(l, Error(msg, e)), exc |-> e]

\* main's handler without its raise.
MainExceptSwallow(l, e) ==
    [log |-> Append(l, Error("Data ingestion failed", e)), exc |-> None]

\* main's handler: logger.error("Data ingestion failed: %s", e); raise
MainExcept(l, e) ==
    [log |-> Append(l, Error("Data ingestion failed", e)), exc |-> e]

\* An exception e raised inside a stage that main called: through the stage's
\* handler, then main's, then out of the process.
FailInStage(msg, e) ==
    LET s == StageExcept(log, msg, e)
        m == MainExcept(s.log, s.exc)
    IN /\ log' = m.log
       /\ exc' = m.exc
       /\ raised' = e
       /\ pc' = "failed"

\* An exception e raised in main's own body.
FailInMain(e) ==
    LET m == MainExcept(log, e)
    IN /\ log' = m.log
       /\ exc' = m.exc
       /\ raised' = e
       /\ pc' = "failed"

\* ------------------------------------------------------------------ stages

preprocess_data(frame) ==
    LET d == drop(frame, DroppedColumns)
    IN IF d.err # None THEN d ELSE [err |-> None, frame |-> rename(d.frame)]

NoRun ==
    [valid |-> FALSE, df |-> NoFrame, train_df |-> NoFrame, test_df |-> NoFrame,
     train |-> NoFile, test |-> NoFile]

Init ==
    /\ paramsFile \in {"missing", "malformed", "ok"}
    /\ source \in Sources
    /\ rawDir \in {"absent", "dir", "file"}
    /\ trainFile \in IF rawDir = "dir" THEN {NoFile, StaleFile} ELSE {NoFile}
    /\ testFile = trainFile
    /\ pc = "ready"
    /\ df = NoFrame
    /\ train_df = NoFrame
    /\ test_df = NoFrame
    /\ log = <<>>
    /\ raised = None
    /\ exc = None
    /\ stages = <<>>
    /\ effects = {}
    /\ prev = NoRun

\* load_params("params.yaml"), called on its own: main does not call it.
LoadParams ==
    /\ pc = "ready"
    /\ stages' = Append(stages, "load_params")
    /\ IF paramsFile = "ok"
       THEN /\ log' = Append(log, Debug("Parameters loaded from", "params.yaml"))
            /\ pc' = "done"
            /\ UNCHANGED <<raised, exc>>
       ELSE LET e == IF paramsFile = "missing" THEN "FileNotFoundError" ELSE "YAMLError"
                s == StageExcept(log, "Error loading parameters", e)
            IN /\ log' = s.log
               /\ exc' = s.exc
               /\ raised' = e
               /\ pc' = "failed"
    /\ UNCHANGED <<env, fs, frames, effects, prev>>

\* main creating the output directory as it is entered.
MainMakedirsFirst ==
    /\ pc = "ready"
    /\ pc' = "load_data"
    /\ stages' = Append(stages, "main")
    /\ rawDir' = makedirs(rawDir, TRUE).dir
    /\ UNCHANGED <<env, trainFile, testFile, frames, log, raised, exc, effects, prev>>

\* python data_ingestion.py: main() is entered.
Main ==
    /\ pc = "ready"
    /\ pc' = "load_data"
    /\ stages' = Append(stages, "main")
    /\ UNCHANGED <<env, fs, frames, log, raised, exc, effects, prev>>

LoadData ==
    /\ pc = "load_data"
    /\ stages' = Append(stages, "load_data")
    /\ LET r == read_csv(source)
       IN IF r.err # None
          THEN /\ FailInStage("Error loading data", r.err)
               /\ UNCHANGED df
          ELSE /\ df' = r.frame
               /\ log' = Append(log, Debug("Data loaded from", "source_url"))
               /\ pc' = "preprocess_data"
               /\ UNCHANGED <<raised, exc>>
    /\ UNCHANGED <<env, fs, train_df, test_df, effects, prev>>

PreprocessData ==
    /\ pc = "preprocess_data"
    /\ stages' = Append(stages, "preprocess_data")
    /\ LET r == preprocess_data(df)
       IN IF r.err # None
          THEN /\ FailInStage("Error during preprocessing", r.err)
               /\ UNCHANGED df
          ELSE /\ df' = r.frame
               /\ log' = Append(log, Debug("Data preprocessing completed", None))
               /\ pc' = "train_test_split"
               /\ UNCHANGED <<raised, exc>>
    /\ UNCHANGED <<env, fs, train_df, test_df, effects, prev>>

\* The split with random_state=None: any permutation of the rows.
SplitUnseeded ==
    /\ pc = "train_test_split"
    /\ stages' = Append(stages, "train_test_split")
    /\ LET n == Len(df.index)
           v == ValidateShuffleSplit(n)
       IN IF v.err # None
          THEN /\ FailInMain(v.err)
               /\ UNCHANGED <<train_df, test_df>>
          ELSE \E p \in { q \in [1..n -> 1..n] : \A a, b \in 1..n : q[a] = q[b] => a = b } :
               /\ test_df' = TakeRows(df, [i \in 1..v.n_test |-> p[i]])
               /\ train_df' = TakeRows(df, [i \in 1..v.n_train |-> p[v.n_test + i]])
               /\ pc' = "makedirs"
               /\ UNCHANGED <<log, raised, exc>>
    /\ UNCHANGED <<env, fs, df, effects, prev>>

Split ==
    /\ pc = "train_test_split"
    /\ stages' = Append(stages, "train_test_split")
    /\ LET r == train_test_split(df)
       IN IF r.err # None
          THEN /\ FailInMain(r.err)
               /\ UNCHANGED <<train_df, test_df>>
          ELSE /\ train_df' = r.train
               /\ test_df' = r.test
               /\ pc' = "makedirs"
               /\ UNCHANGED <<log, raised, exc>>
    /\ UNCHANGED <<env, fs, df, effects, prev>>

\* save_data, first statement: os.makedirs(raw_data_path, exist_ok=True)
Makedirs ==
    /\ pc = "makedirs"
    /\ stages' = Append(stages, "save_data")
    /\ LET r == makedirs(rawDir, TRUE)
       IN IF r.err # None
          THEN /\ FailInStage("Error saving data", r.err)
               /\ UNCHANGED <<rawDir, effects>>
          ELSE /\ rawDir' = r.dir
               /\ effects' = IF rawDir = r.dir THEN effects
                              ELSE effects \cup {"mkdir:data/raw"}
               /\ pc' = "write_train"
               /\ UNCHANGED <<log, raised, exc>>
    /\ UNCHANGED <<env, trainFile, testFile, frames, prev>>

\* save_data, second statement: train_df.to_csv(".../train.csv", index=False).
\* The write may fail as the file is opened, which leaves the file as it
\* was, or after it was opened for writing, which leaves it empty.
WriteTrain ==
    /\ pc = "write_train"
    /\ \/ /\ trainFile' = to_csv(train_df)
          /\ effects' = effects \cup {"write:train.csv"}
          /\ pc' = "write_test"
          /\ UNCHANGED <<log, raised, exc>>
       \/ /\ FailInStage("Error saving data", "OSError")
          /\ UNCHANGED <<trainFile, effects>>
       \/ /\ trainFile' = EmptyFile
          /\ effects' = effects \cup {"truncate:train.csv"}
          /\ FailInStage("Error saving data", "OSError")
    /\ UNCHANGED <<env, rawDir, testFile, frames, stages, prev>>

\* save_data, third statement and its log entry, and main's last log entry.
WriteTest ==
    /\ pc = "write_test"
    /\ \/ /\ testFile' = to_csv(test_df)
          /\ effects' = effects \cup {"write:test.csv"}
          /\ log' = log \o << Debug("Train and test data saved to", "data/raw"),
                               Debug("Data ingestion pipeline completed successfully", None) >>
          /\ pc' = "done"
          /\ UNCHANGED <<raised, exc>>
       \/ /\ FailInStage("Error saving data", "OSError")
          /\ UNCHANGED <<testFile, effects>>
       \/ /\ testFile' = EmptyFile
          /\ effects' = effects \cup {"truncate:test.csv"}
          /\ FailInStage("Error saving data", "OSError")
    /\ UNCHANGED <<env, rawDir, trainFile, frames, stages, prev>>

InMain == stages # <<>> /\ stages[1] = "main"

\* The process has ended; the script is run again, on the same resource and
\* on the files the earlier runs left.
Restart ==
    /\ pc \in {"done", "failed"}
    /\ prev' = IF pc = "done" /\ InMain
               THEN [valid |-> TRUE, df |-> df, train_df |-> train_df,
                     test_df |-> test_df, train |-> trainFile, test |-> testFile]
               ELSE prev
    /\ pc' = "ready"
    /\ df' = NoFrame
    /\ train_df' = NoFrame
    /\ test_df' = NoFrame
    /\ log' = <<>>
    /\ raised' = None
    /\ exc' = None
    /\ stages' = <<>>
    /\ effects' = {}
    /\ UNCHANGED <<env, fs>>

Next ==
    \/ LoadParams
    \/ Main
    \/ LoadData
    \/ PreprocessData
    \/ Split
    \/ Makedirs
    \/ WriteTrain
    \/ WriteTest
    \/ Restart

Spec == Init /\ [][Next]_vars

\* ----------------------------------------------------------- vocabulary

Terminal == pc \in {"done", "failed"}

\* main has got past the split.
SplitDone == InMain /\ pc \in {"makedirs", "write_train", "write_test", "done"}

HasEntry(level, msg) ==
    \E i \in 1..Len(log) : log[i].level = level /\ log[i].msg = msg

Errors == { i \in 1..Len(log) : log[i].level = "ERROR" }

SuccessLogged ==
    HasEntry("DEBUG", "Data ingestion pipeline completed successfully")

Count(x, s) == Cardinality({ i \in 1..Len(s) : s[i] = x })

ExpectedColumns == DroppedColumns \cup {"v1", "v2"}

\* The position of column c in a header, 0 when it is not there.
ColumnAt(h, c) ==
    IF c \in Range(h) THEN CHOOSE i \in 1..Len(h) : h[i] = c ELSE 0

\* ------------------------------------------------------------------- C1

\* C1: once the split in main has succeeded, the train and test row labels
\* are disjoint, none is repeated, together they are the row labels of the
\* preprocessed dataset, every row carries the cells it had there, and when
\* the run is done the lines of train.csv and test.csv are, line for line
\* and count for count, the lines of the preprocessed dataset.
C1_Partition ==
    SplitDone =>
        LET tr == train_df.index
            te == test_df.index
        IN /\ Range(tr) \cap Range(te) = {}
           /\ Range(tr) \cup Range(te) = Range(df.index)
           /\ Cardinality(Range(tr)) = Len(tr)
           /\ Cardinality(Range(te)) = Len(te)
           /\ \A part \in {train_df, test_df} :
                \A i \in 1..Len(part.index) :
                    \E j \in 1..Len(df.index) :
                        /\ df.index[j] = part.index[i]
                        /\ df.data[j] = part.data[i]
           /\ pc = "done" =>
                LET all == to_csv(df).lines
                    out == trainFile.lines \o testFile.lines
                IN /\ Len(out) = Len(all)
                   /\ \A x \in Range(all) \cup Range(out) :
                        Count(x, out) = Count(x, all)

\* A run is done on a four-row dataset holding the same row twice.
C1_Witness ==
    /\ InMain /\ pc = "done"
    /\ df.columns = <<"target", "text">>
    /\ Len(df.index) = 4
    /\ df.data[1] = df.data[2]
    /\ df.data[3] # df.data[1]
    /\ Len(testFile.lines) = 1

\* ------------------------------------------------------------------- C2

\* C2 as stated: whenever the input has the five expected columns, with or
\* without further ones, the preprocessed columns are exactly target, text
\* and the row count is the input's.
C2_Original ==
    (InMain /\ pc = "train_test_split"
        /\ ExpectedColumns \subseteq Range(source.header)) =>
        /\ df.columns = <<"target", "text">>
        /\ Len(df.data) = Len(source.lines)

\* C2 as amended: whenever the input has the five expected columns,
\* preprocess_data returns the input's rows, in order, under the input's
\* columns other than the three dropped ones, in the input's order, v1 named
\* target and v2 named text; the columns are exactly target, text when the
\* input has no sixth column and v1 stands before v2.
C2_Columns ==
    (InMain /\ pc = "train_test_split"
        /\ ExpectedColumns \subseteq Range(source.header)) =>
        LET h == source.header
            c == df.columns
        IN /\ Len(df.data) = Len(source.lines)
           /\ df.index = [i \in 1..Len(source.lines) |-> i - 1]
           /\ Len(c) = Len(h) - 3
           /\ Range(c) \cap DroppedColumns = {}
           /\ Range(c) = (Range(h) \ ExpectedColumns) \cup {"target", "text"}
           /\ \A i \in 1..Len(df.data) : Len(df.data[i]) = Len(c)
           /\ (ColumnAt(c, "target") < ColumnAt(c, "text"))
                 <=> (ColumnAt(h, "v1") < ColumnAt(h, "v2"))
           /\ \A i \in 1..Len(df.data) :
                /\ WriteField(df.data[i][ColumnAt(c, "target")])
                     = source.lines[i][ColumnAt(h, "v1")]
                /\ WriteField(df.data[i][ColumnAt(c, "text")])
                     = source.lines[i][ColumnAt(h, "v2")]
           /\ (Len(h) = 5 /\ ColumnAt(h, "v1") < ColumnAt(h, "v2"))
                 => c = <<"target", "text">>

\* preprocess_data has returned on a three-row input of exactly the five
\* columns, v1 first.
C2_Witness ==
    /\ InMain /\ pc = "train_test_split"
    /\ source.header = <<"v1", "v2", "Unnamed: 2", "Unnamed: 3", "Unnamed: 4">>
    /\ Len(source.lines) = 3
    /\ df.columns = <<"target", "text">>
    /\ Len(df.data) = 3

\* ------------------------------------------------------------------- C3

\* The integer nearest to a / b, the even one of two equally near.
Round(a, b) ==
    LET q == a \div b
        r == a % b
    IN IF 2 * r < b THEN q
       ELSE IF 2 * r > b THEN q + 1
       ELSE IF q % 2 = 0 THEN q ELSE q + 1

\* C3 as stated: the split of an n-row dataset yields round(n * 0.79) train
\* rows and round(n * 0.21) test rows.
C3_Original ==
    SplitDone =>
        LET n == Len(df.index)
        IN /\ Len(train_df.index) = Round((test_size_den - test_size_num) * n, test_size_den)
           /\ Len(test_df.index) = Round(test_size_num * n, test_size_den)

\* C3 as amended: the split of an n-row dataset fails with a ValueError,
\* nothing written, when n <= 1, and for n >= 2 yields ceil(n * 0.21) test
\* rows (the least k with 100 k >= 21 n) and the other n - ceil(n * 0.21) as
\* train rows, 21 and 79 for n = 100; these are the line counts of test.csv
\* and train.csv.
C3_Sizes ==
    LET n == Len(df.index)
        k == Len(test_df.index)
    IN /\ SplitDone =>
            /\ n >= 2
            /\ test_size_den * k >= test_size_num * n
            /\ test_size_den * (k - 1) < test_size_num * n
            /\ Len(train_df.index) = n - k
            /\ Len(train_df.data) = n - k
            /\ Len(test_df.data) = k
       /\ (InMain /\ pc = "done") =>
            /\ Len(trainFile.lines) = n - k
            /\ Len(testFile.lines) = k
       /\ (InMain /\ Len(stages) >= 4 /\ n <= 1) =>
            /\ pc = "failed"
            /\ raised = "ValueError"
            /\ effects = {}
       /\ ValidateShuffleSplit(100) = [n_test |-> 21, n_train |-> 79, err |-> None]
       /\ \A m \in 2..120 :
            LET v == ValidateShuffleSplit(m)
            IN /\ v.err = None
               /\ v.n_train + v.n_test = m
               /\ test_size_den * v.n_test >= test_size_num * m
               /\ test_size_den * (v.n_test - 1) < test_size_num * m

\* A run is done on a four-row dataset: one test line, three train lines.
C3_Witness ==
    /\ InMain /\ pc = "done"
    /\ Len(df.index) = 4
    /\ Len(testFile.lines) = 1
    /\ Len(trainFile.lines) = 3

\* ------------------------------------------------------------------- C4

\* C4: when the parameters file is missing, a run of main writes nothing and
\* ends failed, with the error entry of load_params in the log and the
\* FileNotFoundError leaving the process.
C4_MissingParamsAborts ==
    (InMain /\ paramsFile = "missing") =>
        /\ effects = {}
        /\ Terminal =>
             /\ pc = "failed"
             /\ HasEntry("ERROR", "Error loading parameters")
             /\ exc = "FileNotFoundError"

\* ------------------------------------------------------------------- C5

\* load_data, preprocess_data and the split have all succeeded in this run.
ReadyToSave ==
    /\ SubSeq(stages, 1, 4) = <<"main", "load_data", "preprocess_data", "train_test_split">>
    /\ pc = "failed" => stages[Len(stages)] = "save_data"
    /\ read_csv(source).err = None
    /\ preprocess_data(read_csv(source).frame).err = None
    /\ HasEntry("DEBUG", "Data loaded from")
    /\ HasEntry("DEBUG", "Data preprocessing completed")
    /\ Len(train_df.index) + Len(test_df.index) = Len(source.lines)
    /\ Len(train_df.index) > 0

\* C5: no step of a run of main changes data/raw, train.csv or test.csv
\* unless load_data, preprocess_data and the split have succeeded before it;
\* and in a run whose load_data fails, the run ends failed at load_data with
\* the load error logged and with nothing created or written.
C5_NoWriteBeforeSplit ==
    /\ [][ (fs' # fs) => (InMain /\ ReadyToSave) ]_vars
    /\ [](InMain => (effects # {} => ReadyToSave))
    /\ []((InMain /\ Len(stages) >= 2 /\ read_csv(source).err # None) =>
            /\ pc = "failed"
            /\ stages = <<"main", "load_data">>
            /\ HasEntry("ERROR", "Error loading data")
            /\ exc = read_csv(source).err
            /\ effects = {})

\* load_data has failed on a text with an overlong line, data/raw absent.
C5_Witness ==
    /\ InMain /\ pc = "failed"
    /\ stages = <<"main", "load_data">>
    /\ exc = "ParserError"
    /\ rawDir = "absent"

\* ------------------------------------------------------------------- C6

\* C6 as stated: preprocess_data never returns a dataset lacking target or
\* text, and fails whenever an expected column is absent.
C6_Original ==
    (InMain /\ Len(stages) >= 3) =>
        /\ pc # "failed" => {"target", "text"} \subseteq Range(df.columns)
        /\ ~(ExpectedColumns \subseteq Range(source.header)) => pc = "failed"

\* C6 as amended: preprocess_data fails, logging the error and re-raising
\* the KeyError, whenever one of the three dropped columns is absent; when
\* they are all there it returns, and its result has a target column exactly
\* when the input has v1 and a text column exactly when the input has v2.
C6_DropFails ==
    (InMain /\ Len(stages) >= 3) =>
        IF DroppedColumns \subseteq Range(source.header)
        THEN /\ stages[Len(stages)] = "preprocess_data" => pc = "train_test_split"
             /\ ("target" \in Range(df.columns)) <=> ("v1" \in Range(source.header))
             /\ ("text" \in Range(df.columns)) <=> ("v2" \in Range(source.header))
        ELSE /\ pc = "failed"
             /\ stages = <<"main", "load_data", "preprocess_data">>
             /\ raised = "KeyError"
             /\ exc = "KeyError"
             /\ HasEntry("ERROR", "Error during preprocessing")

\* preprocess_data has failed on an input without the column Unnamed: 4.
C6_Witness ==
    /\ InMain /\ pc = "failed"
    /\ source.header = <<"v1", "v2", "Unnamed: 2", "Unnamed: 3">>
    /\ Len(source.lines) = 2
    /\ exc = "KeyError"
    /\ log[Len(log) - 1] = Error("Error during preprocessing", "KeyError")

\* ------------------------------------------------------------------- C7

WroteTrain == "write:train.csv" \in effects
WroteTest == "write:test.csv" \in effects

\* A run that is done wrote both files from its partitions and logged no
\* error; a run that failed logged main's error and let the exception out.
Dichotomy ==
    (InMain /\ Terminal) =>
        \/ /\ pc = "done"
           /\ WroteTrain /\ WroteTest
           /\ trainFile = to_csv(train_df)
           /\ testFile = to_csv(test_df)
           /\ exc = None
           /\ Errors = {}
           /\ SuccessLogged
        \/ /\ pc = "failed"
           /\ exc # None
           /\ log[Len(log)] = Error("Data ingestion failed", exc)
           /\ ~SuccessLogged

\* C8 as stated: every run ends one of the two ways, and never with only
\* one of the two files written by it.
C8_Original ==
    /\ Dichotomy
    /\ (InMain /\ Terminal) => (WroteTrain <=> WroteTest)

\* C8 as amended: every run ends one of the two ways; a failed run never
\* wrote test.csv, but it may have written train.csv, when the failure came
\* as test.csv was written.
C8_NoPartialSuccess ==
    /\ Dichotomy
    /\ (InMain /\ pc = "failed") => ~WroteTest
    /\ (InMain /\ pc = "failed" /\ WroteTrain) =>
          /\ stages[Len(stages)] = "save_data"
          /\ trainFile = to_csv(train_df)
          /\ log[Len(log) - 1] = Error("Error saving data", exc)

\* The run failed as test.csv was written, train.csv being written already.
C8_Witness ==
    /\ InMain /\ pc = "failed"
    /\ WroteTrain
    /\ "truncate:test.csv" \in effects
    /\ trainFile = to_csv(train_df)
    /\ testFile = EmptyFile

\* ------------------------------------------------------------------- C9

StageMessage(stage) ==
    CASE stage = "load_params" -> "Error loading parameters"
      [] stage = "load_data" -> "Error loading data"
      [] stage = "preprocess_data" -> "Error during preprocessing"
      [] stage = "save_data" -> "Error saving data"
      [] OTHER -> "Data ingestion failed"

Pipeline == <<"main", "load_data", "preprocess_data", "train_test_split", "save_data">>

Debugs == { i \in 1..Len(log) : log[i].level = "DEBUG" }

\* C9: a failure is logged at error level by the stage it happened in and
\* then by main, and the exception that leaves is the one that was raised;
\* the stages entered are an initial part of the pipeline ending with the
\* failing one, each entered once; an error entry is only ever in the log of
\* a failed process, never beside the success message; and the one step a
\* failed process is followed by is the start of a new process.
C9_FailFast ==
    /\ [](pc = "failed" =>
            LET last == stages[Len(stages)]
            IN /\ raised # None
               /\ exc = raised
               /\ ~SuccessLogged
               /\ IF InMain
                  THEN /\ stages = SubSeq(Pipeline, 1, Len(stages))
                       /\ log[Len(log)] = Error("Data ingestion failed", raised)
                       /\ IF last = "train_test_split"
                          THEN Cardinality(Errors) = 1
                          ELSE /\ Cardinality(Errors) = 2
                               /\ log[Len(log) - 1] = Error(StageMessage(last), raised)
                       /\ Cardinality(Debugs) = IF last = "save_data" THEN 2
                                                ELSE Len(stages) - 2
                  ELSE /\ stages = <<"load_params">>
                       /\ log = <<Error("Error loading parameters", raised)>>)
    /\ [](Errors # {} => pc = "failed")
    /\ [](SuccessLogged => (pc = "done" /\ exc = None))
    /\ [][pc = "failed" => (pc' = "ready" /\ stages' = <<>> /\ fs' = fs)]_vars

\* preprocess_data has failed: its error, then main's, and no later stage.
C9_Witness ==
    /\ pc = "failed"
    /\ stages = <<"main", "load_data", "preprocess_data">>
    /\ log = << Debug("Data loaded from", "source_url"),
                Error("Error during preprocessing", "KeyError"),
                Error("Data ingestion failed", "KeyError") >>
    /\ exc = "KeyError"

\* ------------------------------------------------------------------ C10

\* C10: whether data/raw was absent, empty, or held the files of an earlier
\* run or older ones, a save_data that returned leaves the directory there
\* and train.csv and test.csv holding the partitions it was given and
\* nothing else, which on an unchanged input is what the earlier run left;
\* and save_data fails on the directory only when data/raw is no directory.
C10_Overwrite ==
    /\ (InMain /\ pc = "done") =>
          /\ rawDir = "dir"
          /\ trainFile = [header |-> train_df.columns,
                           lines |-> [i \in 1..Len(train_df.data) |->
                                        [j \in 1..Len(train_df.columns) |->
                                            WriteField(train_df.data[i][j])]]]
          /\ testFile = [header |-> test_df.columns,
                          lines |-> [i \in 1..Len(test_df.data) |->
                                       [j \in 1..Len(test_df.columns) |->
                                           WriteField(test_df.data[i][j])]]]
          /\ trainFile.header = df.columns
          /\ testFile.header = df.columns
          /\ (prev.valid /\ prev.df = df) =>
                (trainFile = prev.train /\ testFile = prev.test)
    /\ (InMain /\ pc = "failed" /\ stages[Len(stages)] = "save_data") =>
          /\ raised \in {"FileExistsError", "OSError"}
          /\ raised = "FileExistsError" => rawDir = "file"
    /\ (InMain /\ pc \in {"write_train", "write_test"}) => rawDir = "dir"

\* A second run is done over the files an earlier done run had left.
C10_Witness ==
    /\ InMain /\ pc = "done"
    /\ prev.valid
    /\ prev.train = trainFile
    /\ Len(trainFile.lines) = 3
    /\ effects = {"write:train.csv", "write:test.csv"}

====
